---- MODULE Spec2Model ----
(***************************************************************************)
(* Model of src/react.js: a chat client made of four React components      *)
(* (AuthProvider, App, AuthScreen, ChatListScreen, ChatRoomScreen) wired   *)
(* to an authentication collaborator and a document database.              *)
(*                                                                         *)
(* One step of the model is one JavaScript task: an event handler or the   *)
(* continuation of an async function after an await, together with the     *)
(* render commit React performs for the state it set.  The passive effect  *)
(* of App (lines 99-105) runs after that commit and before anything else:  *)
(* it is the step AppViewEffect, and no other step is enabled while it is  *)
(* due, so the commit between the two is a state of the model.             *)
(***************************************************************************)
EXTENDS Integers, Sequences, FiniteSets, TLC

(* ---------------------------------------------------------------- bounds *)
MaxHandlers == 2     \* runs of the onAuthStateChanged callback in flight
MaxRooms == 2        \* room documents
MaxMsgs == 2         \* message documents
MaxSends == 2        \* runs of handleSendMessage between its two writes

(* ------------------------------------------------------------- constants *)
Null == "null"        \* null, for identities
NoChat == 0           \* null, for room ids (room ids are 1, 2, ...)
\* identities the auth collaborator knows: one e-mail account, the identity
\* of the pre-provisioned token, the anonymous identity of this device
EmailUser == "u1"
TokenUser == "u2"
AnonUser == "anon"
Uids == {EmailUser, TokenUser, AnonUser}

\* texts a user can type: sequences of characters, " " is whitespace
InputTexts == { <<>>, <<" ">>, <<" ", "a">>, <<"b">> }

VARIABLES
  hasToken,          \* __initial_auth_token is defined and truthy
  fnBound,           \* signInAnonymously / signInWithCustomToken resolve to functions
  authUser,          \* the auth collaborator's signed-in user
  started,           \* the listener's first notification has been delivered
  handlers,          \* runs of the onAuthStateChanged callback
  profiles,          \* database: profile documents
  rooms,             \* database: room documents
  msgs,              \* database: message documents
  clock,             \* database: server clock behind serverTimestamp()
  currentUser, userId, loading,                \* AuthProvider state
  view, selectedChatId, selectedChatName,      \* App state
  effectDue,                                   \* App's effect is scheduled
  authNote,                                    \* AuthScreen: "", "error", "message"
  chats, newChatName, showCreateChat, roomSub, \* ChatListScreen state, its subscription
  messages, newMessage, msgSub,                \* ChatRoomScreen state, its subscription
  sends,             \* runs of handleSendMessage awaiting updateDoc
  signOutPending,    \* a signOut request of handleLogout has not settled
  completed,         \* identities for which a run of the callback reached line 69
  earlyReturns,      \* handlers that have returned at their guard (lines 235, 372)
  errors             \* what console.error has reported (lines 228, 246, 359, 392)

cfgVars == <<hasToken, fnBound>>
authVars == <<authUser, started, handlers>>
dbVars == <<profiles, rooms, msgs, clock>>
provVars == <<currentUser, userId, loading>>
appVars == <<view, selectedChatId, selectedChatName>>
listVars == <<chats, newChatName, showCreateChat, roomSub>>
roomVars == <<messages, newMessage, msgSub>>
obsVars == <<completed, earlyReturns, errors>>
vars == <<cfgVars, authVars, dbVars, provVars, appVars, effectDue, authNote,
          listVars, roomVars, sends, signOutPending, obsVars>>

(* ------------------------------------------------------------ pure parts *)
IsSpace(c) == c = " "

\* String.prototype.trim: whitespace removed at both ends
RECURSIVE TrimLeft(_)
TrimLeft(s) == IF s # <<>> /\ IsSpace(Head(s)) THEN TrimLeft(Tail(s)) ELSE s

RECURSIVE TrimRight(_)
TrimRight(s) ==
  IF s # <<>> /\ IsSpace(s[Len(s)]) THEN TrimRight(SubSeq(s, 1, Len(s) - 1)) ELSE s

Trim(s) == TrimLeft(TrimRight(s))

\* query(..., orderBy('createdAt')): the documents in ascending createdAt
RECURSIVE OrderByCreatedAt(_)
OrderByCreatedAt(S) ==
  IF S = {} THEN <<>>
  ELSE LET m == CHOOSE x \in S : \A y \in S : x.createdAt <= y.createdAt
       IN <<m>> \o OrderByCreatedAt(S \ {m})

\* a query without orderBy: the documents in ascending document id
RECURSIVE OrderById(_)
OrderById(S) ==
  IF S = {} THEN <<>>
  ELSE LET m == CHOOSE x \in S : \A y \in S : x.id <= y.id
       IN <<m>> \o OrderById(S \ {m})

Range(f) == { f[i] : i \in DOMAIN f }

(* ------------------------------------------------------ rendering (JSX) *)
\* which screen the component tree presents
ScreenOf(ld, cu, v, sel) ==
  IF ld THEN "loading"
  ELSE IF v = "login" THEN "login"
  ELSE IF v = "chatList" /\ cu # Null THEN "chatList"
  ELSE IF v = "chatRoom" /\ cu # Null /\ sel # NoChat THEN "chatRoom"
  ELSE "blank"

Screen == ScreenOf(loading, currentUser, view, selectedChatId)

(* ------------------------------------------- AuthProvider (lines 18-89) *)
Pending == {"awaitToken", "awaitFallback", "awaitGet", "awaitSet", "awaitAnon"}

IdleRun == [pc |-> "idle", user |-> Null]

HasFree(hs) == \E i \in DOMAIN hs : hs[i].pc = "idle"
FreeSlot(hs) ==
  CHOOSE i \in DOMAIN hs : hs[i].pc = "idle" /\ \A j \in 1..(i - 1) : hs[j].pc # "idle"

\* line 35: typeof __initial_auth_token !== 'undefined' && __initial_auth_token
TokenAvailable == hasToken

\* line 60: typeof __initial_auth_token === 'undefined' || !__initial_auth_token
AnonymousWanted == ~TokenAvailable

\* Where a run of the callback stands when it first suspends, "done" when it
\* reached line 69 without suspending, "threw" when an exception left it.
\* signInWithCustomToken and signInAnonymously are not among the imports of
\* lines 3-4: calling one throws a ReferenceError unless the host defines it.
\* With a user and a token (lines 35-44) the throw of line 37 is caught at
\* line 39 and the throw of line 41 leaves the callback; without a user
\* (lines 60-67) the throw of line 62 is caught at line 64.
StartPc(user) ==
  IF user # Null
  THEN IF TokenAvailable THEN (IF fnBound THEN "awaitToken" ELSE "threw") ELSE "awaitGet"
  ELSE IF AnonymousWanted THEN (IF fnBound THEN "awaitAnon" ELSE "done") ELSE "done"

\* the run of the callback started by a notification, lines 30-37 / 56-62;
\* a run that has ended leaves the table
StartRun(user) ==
  IF StartPc(user) \in Pending THEN [pc |-> StartPc(user), user |-> user] ELSE IdleRun

Deliver(hs, user) == [hs EXCEPT ![FreeSlot(hs)] = StartRun(user)]

ProfileExists(u) == \E d \in profiles : d.uid = u

NeedsProfileMutant(u) == ProfileExists(u)
\* line 48: !userSnap.exists()
NeedsProfile(u) == ~ProfileExists(u)

\* setDoc(ref, data): the document at the path is created or replaced
SetDoc(coll, data) == { d \in coll : d.uid # data.uid } \cup {data}

\* lines 50-53 (the server timestamp of createdAt is not modelled)
ProfileDoc(u) == [uid |-> u, displayName |-> <<"User-", u>>]

(* ------------------------------------ commit of a render, child screens *)
RoomSubForMutant(screen, uid) == uid
\* lines 217-232: the room listener the effect holds after a commit
RoomSubFor(screen, uid) == IF screen = "chatList" /\ uid # Null THEN uid ELSE Null

MsgSubForMutant(screen, chatId, old) == IF screen = "chatRoom" THEN chatId ELSE old
\* lines 348-363: the message listener the effect holds after a commit; the
\* cleanup of line 362 releases the one held before (old)
MsgSubFor(screen, chatId, old) == IF screen = "chatRoom" THEN chatId ELSE NoChat

\* The state of a screen that is not mounted is its initial state; a screen
\* that stays mounted keeps its state; effects subscribe for the current key.
\* App's effect (lines 99-105) is due when App mounts or currentUser changes.
Mount(note) ==
  /\ effectDue' = (~loading' /\ (loading \/ currentUser' # currentUser))
  /\ authNote' = IF Screen' = "login" THEN note ELSE ""
  /\ chats' = IF Screen' = "chatList" THEN chats ELSE {}
  /\ newChatName' = IF Screen' = "chatList" THEN newChatName ELSE <<>>
  /\ showCreateChat' = IF Screen' = "chatList" THEN showCreateChat ELSE FALSE
  /\ roomSub' = RoomSubFor(Screen', userId')
  /\ messages' = IF Screen' = "chatRoom" THEN messages ELSE <<>>
  /\ newMessage' = IF Screen' = "chatRoom" THEN newMessage ELSE <<>>
  /\ msgSub' = MsgSubFor(Screen', selectedChatId', msgSub)
  /\ sends' = IF Screen' = "chatRoom" THEN sends
              ELSE { [s EXCEPT !.live = FALSE] : s \in sends }

\* A step of the session: the handler table after the running callback's own
\* move (hs1), the collaborator's user after it (newAuth), whether the running
\* callback reached setLoading(false) at line 69 (reachedEnd) and for which
\* identity (endUser).  A change of user notifies the listener, whose
\* callback runs to its first await in the same task (lines 30-37, 56-62).
Session(hs1, newAuth, reachedEnd, endUser, note) ==
  LET fire == (newAuth # authUser) \/ ~started
      endsNow == reachedEnd \/ (fire /\ StartPc(newAuth) = "done")
  IN /\ fire => HasFree(hs1)
     /\ handlers' = IF fire THEN Deliver(hs1, newAuth) ELSE hs1
     /\ authUser' = newAuth
     /\ started' = TRUE
     /\ currentUser' = IF fire THEN newAuth ELSE currentUser
     /\ userId' = IF fire THEN newAuth ELSE userId
     /\ loading' = (loading /\ ~endsNow)
     /\ completed' = IF reachedEnd /\ endUser # Null
                      THEN completed \cup {endUser} ELSE completed
     /\ UNCHANGED <<cfgVars, appVars, earlyReturns, errors>>
     /\ Mount(note)

(* --------------------------------------------------------------- Init *)
\* the state after construction (lines 19-23, 95-97, 212-214, 343-344), for
\* a given content of the database and a given configuration of the host
Boot ==
  /\ authUser \in {Null, EmailUser}      \* no session, or a persisted one
  /\ started = FALSE
  /\ handlers = [i \in 1..MaxHandlers |-> IdleRun]
  /\ clock = 1
  /\ currentUser = Null
  /\ userId = Null
  /\ loading = TRUE
  /\ view = "chatList"
  /\ selectedChatId = NoChat
  /\ selectedChatName = <<>>
  /\ effectDue = FALSE
  /\ authNote = ""
  /\ chats = {}
  /\ newChatName = <<>>
  /\ showCreateChat = FALSE
  /\ roomSub = Null
  /\ messages = <<>>
  /\ newMessage = <<>>
  /\ msgSub = NoChat
  /\ sends = {}
  /\ signOutPending = FALSE
  /\ completed = {}
  /\ earlyReturns = {}
  /\ errors = {}

Init ==
  /\ hasToken \in BOOLEAN
  /\ fnBound \in BOOLEAN
  /\ profiles = {}
  /\ rooms = {}
  /\ msgs = {}
  /\ Boot

Idle == started /\ ~effectDue

(* ------------------------- onAuthStateChanged callback (lines 30-70) *)
\* the listener's first notification, with the collaborator's current user
AuthInit ==
  /\ ~started
  /\ Session(handlers, authUser, FALSE, Null, authNote)
  /\ UNCHANGED <<dbVars, signOutPending>>

Moved(i, pc) == [handlers EXCEPT ![i].pc = pc]
Left(i) == [handlers EXCEPT ![i] = IdleRun]

\* line 37 settles
TokenResolve(i) ==
  /\ Idle /\ handlers[i].pc = "awaitToken"
  /\ \/ Session(Moved(i, "awaitGet"), TokenUser, FALSE, Null, authNote)
     \/ \* rejected: caught at line 39, line 41 asks for an anonymous identity
        Session(Moved(i, "awaitFallback"), authUser, FALSE, Null, authNote)
  /\ UNCHANGED <<dbVars, signOutPending>>

\* line 41 settles; its rejection is thrown inside the catch block
FallbackResolve(i) ==
  /\ Idle /\ handlers[i].pc = "awaitFallback"
  /\ \/ Session(Moved(i, "awaitGet"), AnonUser, FALSE, Null, authNote)
     \/ Session(Left(i), authUser, FALSE, Null, authNote)
  /\ UNCHANGED <<dbVars, signOutPending>>

\* line 62 settles; its rejection is caught at line 64; then line 69
AnonResolve(i) ==
  /\ Idle /\ handlers[i].pc = "awaitAnon"
  /\ \/ Session(Left(i), AnonUser, TRUE, Null, authNote)
     \/ Session(Left(i), authUser, TRUE, Null, authNote)
  /\ UNCHANGED <<dbVars, signOutPending>>

\* line 47 settles: lines 48-49, or line 69, or the rejection leaves the callback
GetDocResolve(i) ==
  /\ Idle /\ handlers[i].pc = "awaitGet"
  /\ \/ IF NeedsProfile(handlers[i].user)
        THEN Session(Moved(i, "awaitSet"), authUser, FALSE, Null, authNote)
        ELSE Session(Left(i), authUser, TRUE, handlers[i].user, authNote)
     \/ Session(Left(i), authUser, FALSE, Null, authNote)
  /\ UNCHANGED <<dbVars, signOutPending>>

\* line 49 settles: the write, then line 69; or the rejection leaves the callback
SetDocResolve(i) ==
  /\ Idle /\ handlers[i].pc = "awaitSet"
  /\ \/ /\ profiles' = SetDoc(profiles, ProfileDoc(handlers[i].user))
        /\ Session(Left(i), authUser, TRUE, handlers[i].user, authNote)
     \/ /\ profiles' = profiles
        /\ Session(Left(i), authUser, FALSE, Null, authNote)
  /\ UNCHANGED <<rooms, msgs, clock, signOutPending>>

(* ------------------------------------------------- App (lines 93-136) *)
ViewForMutant(cu) == "chatList"
\* lines 100-104
ViewFor(cu) == IF cu = Null THEN "login" ELSE "chatList"

\* the effect of lines 99-105, after a commit that mounted App or changed currentUser
AppViewEffect ==
  /\ effectDue
  /\ view' = ViewFor(currentUser)
  /\ UNCHANGED <<cfgVars, authVars, dbVars, provVars, selectedChatId, selectedChatName,
                 signOutPending, obsVars>>
  /\ Mount(authNote)

\* lines 107-111
handleSelectChat(chat) ==
  /\ Idle /\ Screen = "chatList" /\ chat \in chats
  /\ selectedChatId' = chat.id
  /\ selectedChatName' = chat.name
  /\ view' = "chatRoom"
  /\ UNCHANGED <<cfgVars, authVars, dbVars, provVars, signOutPending, obsVars>>
  /\ Mount(authNote)

handleBackToChatListMutant ==
  /\ Idle /\ Screen = "chatRoom"
  /\ view' = "chatList"
  /\ UNCHANGED <<cfgVars, authVars, dbVars, provVars, selectedChatId, selectedChatName,
                 signOutPending, obsVars>>
  /\ Mount(authNote)
\* lines 113-117
handleBackToChatList ==
  /\ Idle /\ Screen = "chatRoom"
  /\ view' = "chatList"
  /\ selectedChatId' = NoChat
  /\ selectedChatName' = <<>>
  /\ UNCHANGED <<cfgVars, authVars, dbVars, provVars, signOutPending, obsVars>>
  /\ Mount(authNote)

(* ------------------------------------------ AuthScreen (lines 138-208) *)
\* lines 146-167: the collaborator signs the account in (or registers it), or rejects
handleAuth ==
  /\ Idle /\ Screen = "login"
  /\ \/ /\ Session(handlers, EmailUser, FALSE, Null, "message")
        /\ UNCHANGED <<dbVars, signOutPending>>
     \/ /\ authNote' = "error"
        /\ UNCHANGED <<cfgVars, authVars, dbVars, provVars, appVars, effectDue,
                       listVars, roomVars, sends, signOutPending, obsVars>>

(* -------------------------------------- ChatListScreen (lines 210-339) *)
IncludesMutant(chat, uid) == TRUE
\* line 225: chat.participants && chat.participants.includes(userId)
Includes(chat, uid) == uid \in chat.participants

\* lines 223-225: the snapshot's documents, filtered
ChatData(snapshot, uid) == { chat \in snapshot : Includes(chat, uid) }

\* lines 222-226: a snapshot of the room collection reaches the listener that
\* the effect of lines 217-232 registered for the identity roomSub
RoomsSnapshot ==
  /\ Idle /\ roomSub # Null
  /\ chats' = ChatData(rooms, roomSub)
  /\ UNCHANGED <<cfgVars, authVars, dbVars, provVars, appVars, effectDue, authNote,
                 newChatName, showCreateChat, roomSub, roomVars, sends,
                 signOutPending, obsVars>>

\* line 317
TypeChatName(t) ==
  /\ Idle /\ Screen = "chatList" /\ showCreateChat
  /\ newChatName' = t
  /\ UNCHANGED <<cfgVars, authVars, dbVars, provVars, appVars, effectDue, authNote,
                 chats, showCreateChat, roomSub, roomVars, sends,
                 signOutPending, obsVars>>

\* lines 306 and 328
ToggleCreateChat ==
  /\ Idle /\ Screen = "chatList"
  /\ showCreateChat' = ~showCreateChat
  /\ UNCHANGED <<cfgVars, authVars, dbVars, provVars, appVars, effectDue, authNote,
                 chats, newChatName, roomSub, roomVars, sends,
                 signOutPending, obsVars>>

NameRejectedMutant(name) == name = <<>>
\* line 235: !newChatName.trim()
NameRejected(name) == Trim(name) = <<>>

\* lines 238-242 (the server timestamp of createdAt is not modelled)
NewChat(name, uid) ==
  [id |-> Cardinality(rooms) + 1, name |-> Trim(name), participants |-> {uid},
   lastMessage |-> <<>>, lastMessageTime |-> 0]

\* lines 234-248: the return of line 235; or addDoc commits the room and
\* lines 243-244 run; or addDoc rejects (caught at line 245)
handleCreateChat ==
  /\ Idle /\ Screen = "chatList" /\ showCreateChat
  /\ Cardinality(rooms) < MaxRooms
  /\ IF NameRejected(newChatName)
     THEN /\ earlyReturns' = earlyReturns \cup {"handleCreateChat"}
          /\ UNCHANGED <<rooms, newChatName, showCreateChat>>
     ELSE /\ earlyReturns' = earlyReturns
          /\ \/ /\ rooms' = rooms \cup {NewChat(newChatName, userId)}
                /\ newChatName' = <<>>
                /\ showCreateChat' = FALSE
             \/ UNCHANGED <<rooms, newChatName, showCreateChat>>
  /\ UNCHANGED <<cfgVars, authVars, profiles, msgs, clock, provVars, appVars, effectDue,
                 authNote, chats, roomSub, roomVars, sends, signOutPending, completed, errors>>

handleLogoutMutant ==
  /\ Idle /\ Screen = "chatList"
  /\ signOutPending' = TRUE
  /\ view' = "login"
  /\ UNCHANGED <<cfgVars, authVars, dbVars, provVars, selectedChatId, selectedChatName,
                 obsVars>>
  /\ Mount(authNote)
\* lines 250-252: the click; signOut is asked of the collaborator
handleLogout ==
  /\ Idle /\ Screen = "chatList"
  /\ signOutPending' = TRUE
  /\ UNCHANGED <<cfgVars, authVars, dbVars, provVars, appVars, effectDue, authNote,
                 listVars, roomVars, sends, obsVars>>

\* line 252 settles: the user is signed out, or the rejection is caught at line 254
SignOutResolve ==
  /\ Idle /\ signOutPending
  /\ signOutPending' = FALSE
  /\ \/ Session(handlers, Null, FALSE, Null, authNote)
     \/ Session(handlers, authUser, FALSE, Null, authNote)
  /\ UNCHANGED dbVars

(* -------------------------------------- ChatRoomScreen (lines 341-459) *)
OrderedMutant(S) == OrderById(S)
\* line 353: query(messagesCollectionRef, orderBy('createdAt'))
Ordered(S) == OrderByCreatedAt(S)

MessagesOfMutant(chatId) == msgs
\* the documents of the sub-collection chats/<chatId>/messages (line 352)
MessagesOf(chatId) == { m \in msgs : m.room = chatId }

\* lines 355-357: a snapshot of the room's messages reaches the listener that
\* the effect of lines 348-363 registered for the room msgSub
MessagesSnapshot ==
  /\ Idle /\ msgSub # NoChat
  /\ messages' = Ordered(MessagesOf(msgSub))
  /\ UNCHANGED <<cfgVars, authVars, dbVars, provVars, appVars, effectDue, authNote,
                 listVars, newMessage, msgSub, sends, signOutPending, obsVars>>

\* line 445
TypeMessage(t) ==
  /\ Idle /\ Screen = "chatRoom"
  /\ newMessage' = t
  /\ UNCHANGED <<cfgVars, authVars, dbVars, provVars, appVars, effectDue, authNote,
                 listVars, messages, msgSub, sends, signOutPending, obsVars>>

SendRejectedMutant(text, chatId, uid) == text = <<>> \/ chatId = NoChat \/ uid = Null
\* line 372: !newMessage.trim() || !db || !chatId || !userId
SendRejected(text, chatId, uid) == Trim(text) = <<>> \/ chatId = NoChat \/ uid = Null

FreeMsgIds == (1..MaxMsgs) \ { m.id : m \in msgs }

NewMessageMutant(id, chatId, text, uid) ==
  [id |-> id, room |-> chatId, text |-> text, senderId |-> uid, createdAt |-> clock]
\* lines 376-381; the document id is the collaborator's choice
NewMessage(id, chatId, text, uid) ==
  [id |-> id, room |-> chatId, text |-> Trim(text), senderId |-> uid, createdAt |-> clock]

\* lines 370-381: the return of line 372; or addDoc commits the message with
\* the server's timestamp and line 385 is reached; or addDoc rejects (line 391)
handleSendMessage ==
  /\ Idle /\ Screen = "chatRoom"
  /\ FreeMsgIds # {} /\ Cardinality(sends) < MaxSends
  /\ IF SendRejected(newMessage, selectedChatId, userId)
     THEN /\ earlyReturns' = earlyReturns \cup {"handleSendMessage"}
          /\ UNCHANGED <<msgs, clock, sends>>
     ELSE /\ earlyReturns' = earlyReturns
          /\ \/ \E id \in FreeMsgIds :
                  /\ msgs' = msgs \cup {NewMessage(id, selectedChatId, newMessage, userId)}
                  /\ clock' = clock + 1
                  /\ sends' = sends \cup {[id |-> id, chatId |-> selectedChatId,
                                           text |-> Trim(newMessage), live |-> TRUE]}
             \/ UNCHANGED <<msgs, clock, sends>>
  /\ UNCHANGED <<cfgVars, authVars, profiles, rooms, provVars, appVars, effectDue,
                 authNote, listVars, roomVars, signOutPending, completed, errors>>

SummarisedOnceMutant(chat, text) ==
  IF chat.lastMessage = <<>> THEN [chat EXCEPT !.lastMessage = text, !.lastMessageTime = clock]
  ELSE chat
SummarisedMutant(chat, text) == [chat EXCEPT !.name = text, !.lastMessage = text]
\* lines 385-388
Summarised(chat, text) == [chat EXCEPT !.lastMessage = text, !.lastMessageTime = clock]

\* lines 383-390: updateDoc commits the summary and line 390 clears the input
\* of the screen that sent (if it is still mounted), or rejects (line 391)
SendUpdate(s) ==
  /\ Idle /\ s \in sends
  /\ sends' = sends \ {s}
  /\ \/ /\ rooms' = { IF c.id = s.chatId THEN Summarised(c, s.text) ELSE c : c \in rooms }
        /\ clock' = clock + 1
        /\ newMessage' = IF s.live THEN <<>> ELSE newMessage
     \/ UNCHANGED <<rooms, clock, newMessage>>
  /\ UNCHANGED <<cfgVars, authVars, profiles, msgs, provVars, appVars, effectDue,
                 authNote, listVars, messages, msgSub, signOutPending, obsVars>>

(* ------------------------------ error callbacks and catch blocks *)
\* lines 227-229: the room listener's error callback reports and sets nothing
RoomsSnapshotError ==
  /\ Idle /\ roomSub # Null
  /\ errors' = errors \cup {"chats"}
  /\ UNCHANGED <<cfgVars, authVars, dbVars, provVars, appVars, effectDue, authNote,
                 listVars, roomVars, sends, signOutPending, completed, earlyReturns>>

\* lines 358-360: the message listener's error callback reports and sets nothing
MessagesSnapshotError ==
  /\ Idle /\ msgSub # NoChat
  /\ errors' = errors \cup {"messages"}
  /\ UNCHANGED <<cfgVars, authVars, dbVars, provVars, appVars, effectDue, authNote,
                 listVars, roomVars, sends, signOutPending, completed, earlyReturns>>

\* lines 234-247 when addDoc rejects: the catch of line 245 reports
CreateChatError ==
  /\ Idle /\ Screen = "chatList" /\ showCreateChat
  /\ ~NameRejected(newChatName)
  /\ errors' = errors \cup {"handleCreateChat"}
  /\ UNCHANGED <<cfgVars, authVars, dbVars, provVars, appVars, effectDue, authNote,
                 listVars, roomVars, sends, signOutPending, completed, earlyReturns>>

SendMessageErrorMutant ==
  /\ Idle /\ Screen = "chatRoom"
  /\ ~SendRejected(newMessage, selectedChatId, userId)
  /\ errors' = errors \cup {"handleSendMessage"}
  /\ newMessage' = <<>>
  /\ UNCHANGED <<cfgVars, authVars, dbVars, provVars, appVars, effectDue, authNote,
                 listVars, messages, msgSub, sends, signOutPending, completed, earlyReturns>>
\* lines 370-381 when addDoc rejects: the catch of line 391 reports
SendMessageError ==
  /\ Idle /\ Screen = "chatRoom"
  /\ ~SendRejected(newMessage, selectedChatId, userId)
  /\ errors' = errors \cup {"handleSendMessage"}
  /\ UNCHANGED <<cfgVars, authVars, dbVars, provVars, appVars, effectDue, authNote,
                 listVars, roomVars, sends, signOutPending, completed, earlyReturns>>

\* lines 383-388 when updateDoc rejects: the catch of line 391 reports, line
\* 390 is not reached
SendUpdateError(s) ==
  /\ Idle /\ s \in sends
  /\ sends' = sends \ {s}
  /\ errors' = errors \cup {"updateDoc"}
  /\ UNCHANGED <<cfgVars, authVars, dbVars, provVars, appVars, effectDue, authNote,
                 listVars, roomVars, signOutPending, completed, earlyReturns>>

(* --------------------------------------------------------------- Next *)
\* what every configuration of the host can do
BootstrapNext ==
  \/ AuthInit
  \/ \E i \in 1..MaxHandlers : GetDocResolve(i)
  \/ \E i \in 1..MaxHandlers : SetDocResolve(i)
  \/ AppViewEffect
  \/ handleAuth
  \/ handleLogout
  \/ SignOutResolve

\* with the sign-in functions provided by the host
SessionNext ==
  \/ BootstrapNext
  \/ \E i \in 1..MaxHandlers : TokenResolve(i)
  \/ \E i \in 1..MaxHandlers : FallbackResolve(i)
  \/ \E i \in 1..MaxHandlers : AnonResolve(i)

RoomsNext ==
  \/ RoomsSnapshot
  \/ \E t \in InputTexts : TypeChatName(t)
  \/ ToggleCreateChat
  \/ handleCreateChat

NavNext ==
  \/ \E c \in chats : handleSelectChat(c)
  \/ handleBackToChatList

ChatNext ==
  \/ MessagesSnapshot
  \/ \E t \in InputTexts : TypeMessage(t)
  \/ handleSendMessage
  \/ \E s \in sends : SendUpdate(s)

Next == SessionNext \/ RoomsNext \/ NavNext \/ ChatNext

Spec == Init /\ [][Next]_vars

\* the session manager and the login screen alone
SpecSession == Init /\ [][SessionNext]_vars

\* Contents the database can have when the client starts: rooms and messages
\* written by earlier sessions and by other clients.
OwnRoom ==
  [id |-> 1, name |-> <<"a">>, participants |-> {EmailUser},
   lastMessage |-> <<>>, lastMessageTime |-> 0]
ForeignRoom(id) ==
  [id |-> id, name |-> <<"b">>, participants |-> {TokenUser},
   lastMessage |-> <<>>, lastMessageTime |-> 0]
OldMessage ==
  [id |-> 1, room |-> 1, text |-> <<"b">>, senderId |-> EmailUser, createdAt |-> 0]

\* the room directory: sessions without a token, and rooms created beside
\* another client's room
InitRooms ==
  /\ hasToken = FALSE
  /\ fnBound \in BOOLEAN
  /\ profiles = {}
  /\ rooms = {ForeignRoom(1)}
  /\ msgs = {}
  /\ Boot

SpecRooms ==
  InitRooms /\ [][BootstrapNext \/ (\E i \in 1..MaxHandlers : AnonResolve(i)) \/ RoomsNext]_vars

\* the view router and the subscriptions: sessions and navigation over a
\* database that holds a room of the account, another client's room, a message
InitView ==
  /\ hasToken \in BOOLEAN
  /\ fnBound \in BOOLEAN
  /\ profiles = {}
  /\ rooms = {OwnRoom, ForeignRoom(2)}
  /\ msgs = {OldMessage}
  /\ Boot

SpecView == InitView /\ [][SessionNext \/ RoomsSnapshot \/ NavNext \/ MessagesSnapshot]_vars

\* the transcript: navigation and sends into a room of the account, in a host
\* that provides neither a token nor the two sign-in functions
InitChat ==
  /\ hasToken = FALSE
  /\ fnBound = FALSE
  /\ profiles = {}
  /\ rooms = {OwnRoom}
  /\ msgs = {}
  /\ Boot

SpecChat == InitChat /\ [][BootstrapNext \/ RoomsSnapshot \/ NavNext \/ ChatNext]_vars

\* message inserts after an identity was replaced: a host that provides a
\* token and the two sign-in functions, no persisted session, a database that
\* holds a room of the account
InitSend ==
  /\ hasToken = TRUE
  /\ fnBound = TRUE
  /\ profiles = {}
  /\ rooms = {OwnRoom}
  /\ msgs = {}
  /\ Boot
  /\ authUser = Null

SendNext ==
  \/ BootstrapNext
  \/ \E i \in 1..MaxHandlers : TokenResolve(i)
  \/ \E i \in 1..MaxHandlers : FallbackResolve(i)
  \/ RoomsSnapshot
  \/ NavNext
  \/ TypeMessage(<<"b">>)
  \/ handleSendMessage

SpecSend == InitSend /\ [][SendNext]_vars

\* the database's rooms and messages together: room creation, navigation and
\* the two writes of a send, from an empty database, in one session of the
\* account (a persisted one), in a host that provides no token
InitData ==
  /\ hasToken = FALSE
  /\ fnBound = FALSE
  /\ profiles = {}
  /\ rooms = {}
  /\ msgs = {}
  /\ Boot
  /\ authUser = EmailUser

DataNext ==
  \/ AuthInit
  \/ \E i \in 1..MaxHandlers : GetDocResolve(i)
  \/ \E i \in 1..MaxHandlers : SetDocResolve(i)
  \/ AppViewEffect
  \/ RoomsNext
  \/ NavNext
  \/ \E t \in InputTexts : TypeMessage(t)
  \/ handleSendMessage
  \/ \E s \in sends : SendUpdate(s)

SpecData == InitData /\ [][DataNext]_vars

\* every handler of every screen in one specification: sessions of the
\* account, room creation, navigation, sends and both subscriptions, from an
\* empty database, with one text to type, in a host that provides neither a
\* token nor the two sign-in functions
InitAll ==
  /\ hasToken = FALSE
  /\ fnBound = FALSE
  /\ profiles = {}
  /\ rooms = {}
  /\ msgs = {}
  /\ Boot

AllNext ==
  \/ BootstrapNext
  \/ RoomsSnapshot
  \/ TypeChatName(<<"b">>)
  \/ ToggleCreateChat
  \/ handleCreateChat
  \/ NavNext
  \/ MessagesSnapshot
  \/ TypeMessage(<<"b">>)
  \/ handleSendMessage
  \/ \E s \in sends : SendUpdate(s)

SpecAll == InitAll /\ [][AllNext]_vars

\* failures: the error callbacks of the two subscriptions and the rejections
\* of the three writes, in one session of the account over a database that
\* holds a room of the account and a message in it
InitErrors ==
  /\ hasToken = FALSE
  /\ fnBound = FALSE
  /\ profiles = {}
  /\ rooms = {OwnRoom}
  /\ msgs = {OldMessage}
  /\ Boot
  /\ authUser = EmailUser

ErrorsNext ==
  \/ AuthInit
  \/ \E i \in 1..MaxHandlers : GetDocResolve(i)
  \/ \E i \in 1..MaxHandlers : SetDocResolve(i)
  \/ AppViewEffect
  \/ RoomsSnapshot
  \/ \E t \in InputTexts : TypeChatName(t)
  \/ ToggleCreateChat
  \/ NavNext
  \/ MessagesSnapshot
  \/ \E t \in InputTexts : TypeMessage(t)
  \/ handleSendMessage
  \/ RoomsSnapshotError
  \/ MessagesSnapshotError
  \/ CreateChatError
  \/ SendMessageError
  \/ \E s \in sends : SendUpdateError(s)

SpecErrors == InitErrors /\ [][ErrorsNext]_vars

\* the transcript of one room after another: sessions of the account and
\* navigation over a database that holds two rooms of the account with a
\* message in each, in a host that provides neither a token nor the two
\* sign-in functions
OtherRoom ==
  [id |-> 2, name |-> <<"b">>, participants |-> {EmailUser},
   lastMessage |-> <<>>, lastMessageTime |-> 0]
OtherMessage ==
  [id |-> 2, room |-> 2, text |-> <<"a">>, senderId |-> EmailUser, createdAt |-> 0]

InitTranscript ==
  /\ hasToken = FALSE
  /\ fnBound = FALSE
  /\ profiles = {}
  /\ rooms = {OwnRoom, OtherRoom}
  /\ msgs = {OldMessage, OtherMessage}
  /\ Boot

SpecTranscript ==
  InitTranscript /\ [][BootstrapNext \/ RoomsSnapshot \/ NavNext \/ MessagesSnapshot]_vars

TypeOK ==
  /\ loading \in BOOLEAN
  /\ view \in {"login", "chatList", "chatRoom"}

(* ============================== claims ================================ *)
RunPending(u) == \E i \in 1..MaxHandlers : handlers[i].pc \in Pending /\ handlers[i].user = u
NoRunPending == \A i \in 1..MaxHandlers : handlers[i].pc = "idle"
ProfilesOf(u) == { d \in profiles : d.uid = u }

\* C5 as stated (where no token is configured): once the identity-presence
\* event of an identity has been processed (it is the current identity and
\* no run of the callback for it is in flight), a profile record for it exists.
C5_ProfileAfterEvent ==
  \A u \in Uids :
    (~hasToken /\ started /\ currentUser = u /\ ~RunPending(u)) => ProfileExists(u)

\* C5 amended: once a run of the callback for an identity has reached its end
\* (line 69), exactly one profile record for that identity exists, and no
\* identity ever has a second profile record, however often its event fires.
C5_ProfileOnceCompleted ==
  /\ \A u \in completed : Cardinality(ProfilesOf(u)) = 1
  /\ \A u \in Uids : Cardinality(ProfilesOf(u)) <= 1

\* C5 witness: the event of an identity whose bootstrap has completed fires
\* again and its run is reading the profile
C5_Witness ==
  \E i \in 1..MaxHandlers :
    handlers[i].pc = "awaitGet" /\ handlers[i].user \in completed /\ profiles # {}

\* C8 as stated: a step that delivers an identity-absence event clears the
\* current identity and sends an anonymous sign-in request (a run now waits
\* for signInAnonymously at line 62) if and only if no token is available.
C8_AnonymousIffNoToken ==
  [][ (authUser' = Null /\ (authUser # Null \/ ~started))
      => /\ currentUser' = Null
         /\ userId' = Null
         /\ (\E i \in 1..MaxHandlers :
               handlers'[i].pc = "awaitAnon" /\ handlers[i].pc # "awaitAnon")
            <=> ~hasToken ]_vars

\* C9 as stated (where no token is configured): loading is true exactly until
\* the first identity-change event has been fully processed, so while it is
\* true that event is still to be delivered or a run of the callback is in
\* flight; and nothing but the loading placeholder is mounted meanwhile.
C9_LoadingUntilFirstProcessed ==
  /\ (loading /\ ~hasToken) => (~started \/ ~NoRunPending)
  /\ loading => (Screen = "loading" /\ roomSub = Null /\ msgSub = NoChat)

\* C10 as stated: a run of the callback that waits for the profile read or
\* write (or for the anonymous sign-in of line 62) runs to completion whatever
\* the collaborator answers, so when it ends loading is false.
C10_EveryRunCompletes ==
  [][ \A i \in 1..MaxHandlers :
        (handlers[i].pc \in {"awaitGet", "awaitSet", "awaitAnon"} /\ handlers'[i].pc = "idle")
        => ~loading' ]_vars

IsBlank(t) == \A k \in 1..Len(t) : t[k] = " "

\* C1 as stated: whenever the room directory is shown, a room is in its
\* visible list if and only if the current identity is one of its participants.
C1_VisibleIffMember ==
  (Idle /\ Screen = "chatList")
    => \A c \in rooms : (\E v \in chats : v.id = c.id) <=> (userId \in c.participants)

\* C1 amended: whenever the visible list of the shown directory is set (by a
\* notification of its subscription), it is exactly the rooms of the database
\* at that moment whose participant set holds the current identity's id.
C1_VisibleAfterSnapshot ==
  [][ (chats' # chats /\ Screen' = "chatList")
      => /\ userId' # Null
         /\ \A c \in rooms' : (c \in chats') <=> (userId' \in c.participants)
         /\ chats' \subseteq rooms' ]_vars

\* C1 witness: the directory shows a room of the identity and hides another
C1_Witness ==
  /\ Screen = "chatList" /\ chats # {}
  /\ \E c \in rooms : userId \notin c.participants /\ c \notin chats

\* C2: the displayed message list is always in ascending order of creation
\* timestamp; when a notification sets it, it holds exactly the messages of
\* the subscribed room; and a message sent later to a room has a later
\* timestamp than every message sent to it before, so it is displayed after.
C2_AscendingOrder ==
  [][ /\ \A j \in 1..Len(messages') : \A k \in 1..Len(messages') :
           j < k => messages'[j].createdAt < messages'[k].createdAt
      /\ (messages' # messages /\ msgSub' # NoChat)
           => Range(messages') = { m \in msgs' : m.room = msgSub' }
      /\ \A m \in msgs' \ msgs : \A o \in msgs :
           o.room = m.room => o.createdAt < m.createdAt ]_vars

\* C2 witness: two messages are displayed and the later one has the lower id
C2_Witness ==
  /\ Len(messages) = 2
  /\ messages[1].id > messages[2].id

\* C3: a submit with an empty or whitespace-only text (or with no identity
\* or room) returns at its guard: no message record, no summary update
\* started, the input text as it was.
C3_SendRejected ==
  [][ /\ ("handleSendMessage" \in earlyReturns' \ earlyReturns)
           => /\ IsBlank(newMessage) \/ userId = Null \/ selectedChatId = NoChat
              /\ msgs' = msgs /\ sends' = sends /\ rooms' = rooms
              /\ newMessage' = newMessage
      /\ (IsBlank(newMessage) \/ userId = Null \/ selectedChatId = NoChat)
           => (msgs' = msgs /\ { s.id : s \in sends' } \subseteq { s.id : s \in sends })
      /\ \A m \in msgs' : ~IsBlank(m.text) ]_vars

\* C3 witness: a whitespace-only text was submitted and the guard returned
C3_Witness ==
  /\ "handleSendMessage" \in earlyReturns
  /\ Screen = "chatRoom" /\ newMessage = <<" ">> /\ msgs = {}

\* C4: a create with an empty or whitespace-only name returns at its guard
\* and leaves the rooms, the form and the view as they were; a step that
\* creates a room creates exactly one, named by the trimmed non-empty name,
\* whose participant set is exactly the current identity's id.
C4_CreateRoom ==
  [][ /\ ("handleCreateChat" \in earlyReturns' \ earlyReturns)
           => /\ IsBlank(newChatName)
              /\ rooms' = rooms /\ newChatName' = newChatName
              /\ showCreateChat' = showCreateChat /\ view' = view
      /\ IsBlank(newChatName) => rooms' = rooms
      /\ rooms' # rooms
           => \E r \in rooms' \ rooms :
                /\ rooms' = rooms \cup {r}
                /\ userId # Null /\ r.participants = {userId}
                /\ ~IsBlank(r.name) /\ r.name[1] # " " /\ r.name[Len(r.name)] # " "
                /\ \A o \in rooms : o.id # r.id ]_vars

\* C4 witness: a whitespace-only name was rejected and a room was created
C4_Witness ==
  /\ "handleCreateChat" \in earlyReturns
  /\ \E r \in rooms : r.participants = {EmailUser} /\ r.name = <<"a">>

\* C6: while loading the view is the initial room-list; the effect that runs
\* when App mounts or the identity changes moves the view to login for an
\* absent identity and to room-list for a present one; so whenever no effect
\* is due, the view is login exactly when the identity is absent.
C6_ViewFollowsSession ==
  [][ /\ loading' => view' = "chatList"
      /\ (~loading' /\ (loading \/ currentUser' # currentUser)) => effectDue'
      /\ effectDue => view' = (IF currentUser = Null THEN "login" ELSE "chatList")
      /\ (~loading' /\ ~effectDue') => (currentUser' = Null <=> view' = "login") ]_vars

\* C6 witness: an identity that had signed in is absent again, the view is login
C6_Witness ==
  /\ ~loading /\ ~effectDue /\ currentUser = Null /\ view = "login"
  /\ completed # {}

\* C7: when the identity becomes absent while the transcript is presented,
\* the transcript is unmounted at once (nothing is presented, its message
\* subscription is released), the effect then presents login, and the
\* message list of a screen that is not presented never changes.
C7_SignOutInTranscript ==
  [][ /\ (Screen = "chatRoom" /\ currentUser' = Null)
           => (Screen' = "blank" /\ msgSub' = NoChat /\ effectDue')
      /\ (effectDue /\ currentUser = Null) => (Screen' = "login" /\ msgSub' = NoChat)
      /\ Screen' # "chatRoom" => (msgSub' = NoChat /\ messages' = <<>>) ]_vars

\* C7 witness: the identity went absent on the transcript, nothing is presented
C7_Witness ==
  /\ view = "chatRoom" /\ currentUser = Null /\ effectDue
  /\ Screen = "blank" /\ msgSub = NoChat /\ MessagesOf(selectedChatId) # {}

\* C11 as stated: a run of the callback that starts for a present identity
\* with a token available attempts the token sign-in (it waits at line 37);
\* a run whose token sign-in is rejected goes on to wait for the anonymous
\* fallback of line 41 with the collaborator's user as it was, and a run
\* whose token sign-in succeeded goes on to the profile read, never to an
\* anonymous sign-in.
C11_TokenFallback ==
  [][ /\ (hasToken /\ authUser' # Null /\ (authUser' # authUser \/ ~started))
           => \E i \in 1..MaxHandlers :
                handlers[i].pc = "idle" /\ handlers'[i].pc = "awaitToken"
      /\ \A i \in 1..MaxHandlers :
           (handlers[i].pc = "awaitToken" /\ handlers'[i].pc # "awaitToken")
             => \/ handlers'[i].pc = "awaitFallback" /\ authUser' = authUser
                \/ handlers'[i].pc = "awaitGet" /\ authUser' = TokenUser
      /\ \A i \in 1..MaxHandlers :
           handlers[i].pc \in {"awaitGet", "awaitSet"}
             => handlers'[i].pc \notin {"awaitFallback", "awaitAnon"} ]_vars

\* the runs of the callback whose profile write (line 49) is issued and not settled
WritesIssued(u) ==
  { i \in 1..MaxHandlers : handlers[i].pc = "awaitSet" /\ handlers[i].user = u }

\* C12 as stated: for every identity at most one profile write is issued: no
\* two writes for it are outstanding together, and none is outstanding once
\* its profile record has been written.  Stated for the identities that can
\* sign in a second time (the account and the token's identity): an anonymous
\* sign-in that follows a sign-out makes a new identity.
C12_AtMostOneWrite ==
  \A u \in {EmailUser, TokenUser} :
    /\ Cardinality(WritesIssued(u)) <= 1
    /\ ProfileExists(u) => WritesIssued(u) = {}

\* C13 as stated: while the view is login or room-list no room is selected.
C13_SelectedOnlyInTranscript ==
  view \in {"login", "chatList"} => (selectedChatId = NoChat /\ selectedChatName = <<>>)

\* C13 amended: a room is selected whenever the view is room-transcript; the
\* selection is set, to a room of the visible list, together with the move
\* to room-transcript; the back action clears it together with the move to
\* room-list; the view effect that follows an identity change leaves it as it
\* was; and it never changes but with a move into or out of room-transcript.
C13_SelectedWithTranscript ==
  [][ /\ view' = "chatRoom" => selectedChatId' # NoChat
      /\ (view # "chatRoom" /\ view' = "chatRoom")
           => \E c \in chats : selectedChatId' = c.id /\ selectedChatName' = c.name
      /\ (view = "chatRoom" /\ view' # "chatRoom" /\ ~effectDue)
           => (view' = "chatList" /\ selectedChatId' = NoChat /\ selectedChatName' = <<>>)
      /\ effectDue
           => (selectedChatId' = selectedChatId /\ selectedChatName' = selectedChatName)
      /\ (selectedChatId' # selectedChatId \/ selectedChatName' # selectedChatName)
           => (view' = "chatRoom") # (view = "chatRoom") ]_vars

\* C13 witness: the identity went absent on the transcript and the view is
\* login with the room still selected
C13_Witness ==
  /\ view = "login" /\ ~effectDue /\ currentUser = Null
  /\ selectedChatId # NoChat /\ selectedChatName # <<>>

C16_RoomsAndMessagesFrame ==
  [][ /\ \A c \in rooms :
           \E d \in rooms' :
             /\ d.id = c.id /\ d.name = c.name /\ d.participants = c.participants
             /\ d # c => \E s \in sends \ sends' :
                           /\ s.chatId = c.id
                           /\ d.lastMessage = s.text
                           /\ \E m \in msgs : m.id = s.id /\ m.room = c.id
      /\ \A d \in rooms' : Cardinality({ e \in rooms' : e.id = d.id }) = 1
      /\ msgs \subseteq msgs' ]_vars

\* C16 witness: of two rooms created by the account, one has had its summary
\* set by a send
C16_Witness ==
  /\ Cardinality(rooms) = 2
  /\ \E c \in rooms : c.lastMessage # <<>> /\ c.participants = {EmailUser}
  /\ \E c \in rooms : c.lastMessage = <<>>

\* C17: a step that changes the view is the view effect that follows a change
\* of the current identity (or the end of loading), a room selection on the
\* room list, or the back action on the transcript; a step in which a
\* sign-in or sign-out settles, a login submit fails, a logout is requested,
\* a room or a message is written, a summary update settles or a
\* subscription notification sets a list leaves the view as it was.
C17_ViewChangesOnlyByNavigation ==
  [][ /\ view' # view
           => \/ effectDue /\ view' = (IF currentUser = Null THEN "login" ELSE "chatList")
              \/ /\ ~effectDue /\ Screen = "chatList" /\ view' = "chatRoom"
                 /\ \E c \in chats : selectedChatId' = c.id
              \/ /\ ~effectDue /\ Screen = "chatRoom" /\ view' = "chatList"
                 /\ selectedChatId' = NoChat
      /\ effectDue' => (currentUser' # currentUser \/ (loading /\ ~loading'))
      /\ ( \/ authUser' # authUser
           \/ (authNote' # authNote /\ authNote' # "")
           \/ signOutPending' # signOutPending
           \/ rooms' # rooms
           \/ msgs' # msgs
           \/ { s.id : s \in sends' } # { s.id : s \in sends }
           \/ (chats' # chats /\ chats' # {})
           \/ (messages' # messages /\ messages' # <<>>) )
           => view' = view ]_vars

\* C17 witness: a room was created, a message sent, the lists notified, and a
\* logout is requested from the room list: the view is still room-list
C17_Witness ==
  /\ signOutPending /\ view = "chatList" /\ Screen = "chatList"
  /\ rooms # {} /\ msgs # {} /\ chats # {}

\* C18: a step in which a subscription's error callback or the catch block of
\* a write reports an error leaves the room list, the message list, the two
\* input texts and the create form as they were (and the view, the selected
\* room and the subscriptions with them), and writes nothing.
C18_ErrorsLeaveLocalState ==
  [][ errors' # errors
        => /\ chats' = chats /\ messages' = messages
           /\ newMessage' = newMessage
           /\ newChatName' = newChatName /\ showCreateChat' = showCreateChat
           /\ view' = view /\ selectedChatId' = selectedChatId
           /\ roomSub' = roomSub /\ msgSub' = msgSub
           /\ rooms' = rooms /\ msgs' = msgs ]_vars

\* C18 witness: both subscriptions and the three writes have failed; the
\* transcript still shows the delivered and the inserted message, the typed
\* text is still in the input
C18_Witness ==
  /\ errors = {"chats", "messages", "handleCreateChat", "handleSendMessage", "updateDoc"}
  /\ Screen = "chatRoom" /\ Len(messages) = 2 /\ newMessage = <<"b">>

\* C19: after every step, a room's last-message text is empty or the text of
\* a message persisted in that room, and every send that still has its
\* summary update to make has its message persisted; a step that changes a
\* room's summary settles such a send, with the text of its message; and no
\* step removes a message, so a failure between the two writes leaves the
\* message persisted and the summary as it was.
C19_SummaryAfterInsert ==
  [][ /\ \A c \in rooms' :
           \/ c.lastMessage = <<>>
           \/ \E m \in msgs' : m.room = c.id /\ m.text = c.lastMessage
      /\ \A s \in sends' :
           \E m \in msgs' : m.id = s.id /\ m.room = s.chatId /\ m.text = s.text
      /\ \A c \in rooms : \A d \in rooms' :
           (d.id = c.id /\ d # c)
             => \E s \in sends :
                  /\ s.chatId = c.id /\ s.text = d.lastMessage
                  /\ s.id \notin { r.id : r \in sends' }
      /\ msgs \subseteq msgs' ]_vars

\* C19 witness: a send's summary update succeeded, a later send's message was
\* inserted and its summary update failed: the summary is the earlier text
C19_Witness ==
  /\ sends = {}
  /\ \E c \in rooms : \E m \in msgs :
       /\ m.room = c.id /\ c.lastMessage # <<>> /\ c.lastMessage # m.text
       /\ m.createdAt > c.lastMessageTime

\* the messages of a room with the greatest creation timestamp
Latest(chatId) ==
  { m \in MessagesOf(chatId) : \A o \in MessagesOf(chatId) : o.createdAt <= m.createdAt }

\* no send is in flight and every write of every send succeeded: the server
\* clock has advanced once for each insert and once for each summary update
AllSendsComplete == sends = {} /\ clock = 1 + 2 * Cardinality(msgs)

\* C20 as stated: when no send is in flight and every write succeeded, the
\* last-message text of a room that has messages is the text of its message
\* with the greatest creation timestamp.
C20_SummaryIsLatest ==
  AllSendsComplete
    => \A c \in rooms :
         MessagesOf(c.id) # {} => \E m \in Latest(c.id) : c.lastMessage = m.text

\* C20 amended: the last summary update committed wins: a step in which the
\* summary update of a send is committed sets the room's last-message text
\* to that send's text and its last-message timestamp to a later one, later
\* than every message of the room, whatever messages the room holds; the
\* text is then that of the room's latest message if the send's message is
\* the latest one; and no other step changes a room.
C20_LastWriteWins ==
  [][ /\ \A s \in sends :
           (s.id \notin { r.id : r \in sends' } /\ clock' # clock)
             => \E d \in rooms' :
                  /\ d.id = s.chatId
                  /\ d.lastMessage = s.text
                  /\ \A c \in rooms : c.id = d.id => d.lastMessageTime > c.lastMessageTime
                  /\ \A m \in msgs' : m.room = d.id => m.createdAt < d.lastMessageTime
                  /\ (\E m \in Latest(d.id) : m.id = s.id)
                       => \E m \in Latest(d.id) : d.lastMessage = m.text
      /\ \A c \in rooms : \A d \in rooms' :
           (d.id = c.id /\ d # c)
             => \E s \in sends :
                  s.id \notin { r.id : r \in sends' } /\ s.chatId = c.id /\ clock' # clock ]_vars

\* C20 witness: two sends interleaved (insert, insert, update of the second,
\* update of the first), every write succeeded, and the summary is the text
\* of the older message
C20_Witness ==
  /\ AllSendsComplete
  /\ \E c \in rooms : \E m \in MessagesOf(c.id) :
       /\ c.lastMessage = m.text
       /\ \A n \in Latest(c.id) : n.text # m.text /\ n.createdAt > m.createdAt

\* C21: whenever the transcript is presented every message of its list
\* belongs to the selected room; a transcript that has just been mounted, or
\* whose selected room has just changed, shows no message; and a step that
\* sets the list to messages is a notification of the subscription of the
\* selected room of the presented transcript, which replaces the list by
\* exactly that room's messages.
C21_TranscriptOfSelectedRoom ==
  [][ /\ Screen' = "chatRoom"
           => \A k \in 1..Len(messages') : messages'[k].room = selectedChatId'
      /\ ((Screen # "chatRoom" \/ selectedChatId' # selectedChatId) /\ Screen' = "chatRoom")
           => messages' = <<>>
      /\ (messages' # messages /\ messages' # <<>>)
           => /\ Screen = "chatRoom" /\ Screen' = "chatRoom"
              /\ msgSub = selectedChatId /\ selectedChatId' = selectedChatId
              /\ Range(messages') = { m \in msgs : m.room = selectedChatId } ]_vars

\* C21 witness: the transcript of the second room shows that room's message
\* and none of the first room's
C21_Witness ==
  /\ Screen = "chatRoom" /\ selectedChatId = 2
  /\ messages = <<OtherMessage>>
  /\ \E m \in msgs : m.room = 1

====
